---------------------------- MODULE Spec2Model ----------------------------
(***************************************************************************)
(* BloomWatch backend: the bloom scorer, predictor and species classifier  *)
(* of bloom_detector.py, the climate source of nasa_api.py and the request *)
(* handlers of app.py.                                                     *)
(*                                                                         *)
(* Numbers are fixed point, exact for the inputs drawn here:               *)
(*   ndvi, evi            thousandths        (the code rounds them to 3)   *)
(*   temperature, precip  tenths                                           *)
(*   latitude, longitude  ten-thousandths of a degree                      *)
(*   bloom level          tenths             (the code rounds it to 1)     *)
(*   confidence, probability  hundredths     (the code rounds them to 2)   *)
(* Python values that may be None or a string are tagged records, see      *)
(* Num / PyNone / Str.  A raised exception is the record [exc |-> name].   *)
(* Text constants are written without accents and emoji.                   *)
(***************************************************************************)
EXTENDS Integers, Sequences, FiniteSets, TLC

VARIABLES
    pc,              \* position of the current invocation: "call" | "done"
    arg,             \* the invocation: operation inputs and environment outcomes
    ret,             \* what the invocation returned (or raised)
    outbound,        \* provider requests issued by the current invocation
    nasa_fetcher,    \* app.py:19, the process-wide NASADataFetcher
    bloom_detector   \* app.py:20, the process-wide BloomDetector

vars == <<pc, arg, ret, outbound, nasa_fetcher, bloom_detector>>

-----------------------------------------------------------------------------
(* Bounds of the input sets *)

EviSteps == 200
\* evi inputs are 0, 0.005, ..., EviSteps * 0.005

HeadLen == 5
\* the leading entries of a series whose ndvi is free; the rest is flat

ExtraLen == 1
\* series have 0, 13 or 14 .. 14 + ExtraLen entries

-----------------------------------------------------------------------------
(* Python values *)

Num(x) == [t |-> "num", v |-> x]

PyNone == [t |-> "none"]

Str(s) == [t |-> "str", v |-> s]

IsNum(x) == x.t = "num"

Ok(v) == [exc |-> "none", val |-> v]

Raise(e) == [exc |-> e]

Unset == [exc |-> "unset"]

Raised(r) == r.exc \notin {"none", "unset"}

\* try: tried / except Exception: handler
Except(tried, handler) == IF Raised(tried) THEN handler ELSE tried

Get(d, key, default) == IF key \in DOMAIN d THEN d[key] ELSE default

Abs(x) == IF x < 0 THEN -x ELSE x

Min(a, b) == IF a <= b THEN a ELSE b

Max(a, b) == IF a >= b THEN a ELSE b

\* round(num/den) for den > 0.  Python rounds the binary double: away from an
\* exact decimal tie the result is the nearest integer; at a tie the double may
\* lie on either side, which the flag tieUp decides.
RoundDiv(num, den, tieUp) ==
    LET q == num \div den
        r == num % den
    IN  IF 2 * r > den THEN q + 1
        ELSE IF 2 * r < den THEN q
        ELSE IF tieUp THEN q + 1 ELSE q

\* the quotient rounded toward minus infinity
TruncDiv_floor(num, den) == num \div den

\* int(num/den) for den > 0: truncation toward zero
TruncDiv(num, den) == IF num >= 0 THEN num \div den ELSE -((-num) \div den)

-----------------------------------------------------------------------------
(* datetime: a datetime is the proleptic Gregorian ordinal of its day; a date *)
(* string is Str([sep, y, m, d]) with sep "" for %Y%m%d and "-" for %Y-%m-%d  *)

IsLeap(y) == y % 4 = 0 /\ (y % 100 # 0 \/ y % 400 = 0)

DaysInMonth(y, m) ==
    IF m = 2 THEN (IF IsLeap(y) THEN 29 ELSE 28)
    ELSE IF m \in {4, 6, 9, 11} THEN 30 ELSE 31

DaysBeforeMonthTable == <<0, 31, 59, 90, 120, 151, 181, 212, 243, 273, 304, 334>>

DaysBeforeMonth(y, m) ==
    DaysBeforeMonthTable[m] + (IF m > 2 /\ IsLeap(y) THEN 1 ELSE 0)

DaysBeforeYear(y) ==
    LET p == y - 1 IN p * 365 + p \div 4 - p \div 100 + p \div 400

ymd2ord(y, m, d) == DaysBeforeYear(y) + DaysBeforeMonth(y, m) + d

\* month and day of day n (from 0) of a year, month0 being the estimate
\* (n + 50) >> 5 and preceding0 the days before month0
MonthAndDay(year, leapyear, n, month0, preceding0) ==
    IF preceding0 > n
    THEN [y |-> year, m |-> month0 - 1,
          d |-> n - (preceding0 - DaysInMonth(IF leapyear THEN 4 ELSE 1,
                                              month0 - 1)) + 1]
    ELSE [y |-> year, m |-> month0, d |-> n - preceding0 + 1]

\* the date of day n (from 0) of the year that follows n400 400-year cycles,
\* n100 centuries, n4 4-year cycles and n1 years
YearAndDay(n400, n100, n4, n1, n) ==
    IF n1 = 4 \/ n100 = 4
    THEN [y |-> n400 * 400 + n100 * 100 + n4 * 4 + n1, m |-> 12, d |-> 31]
    ELSE MonthAndDay(n400 * 400 + 1 + n100 * 100 + n4 * 4 + n1,
                     n1 = 3 /\ (n4 # 24 \/ n100 = 3),
                     n,
                     (n + 50) \div 32,
                     DaysBeforeMonth(IF n1 = 3 /\ (n4 # 24 \/ n100 = 3)
                                     THEN 4 ELSE 1,
                                     (n + 50) \div 32))

Cycles4(n400, n100, r100) ==
    YearAndDay(n400, n100, r100 \div 1461, (r100 % 1461) \div 365,
               (r100 % 1461) % 365)

Cycles100(n400, r400) == Cycles4(n400, r400 \div 36524, r400 % 36524)

\* datetime.date.fromordinal: the successive divmods by the days of 400, 100,
\* 4 and 1 years
ord2ymd(ordinal) ==
    Cycles100((ordinal - 1) \div 146097, (ordinal - 1) % 146097)

\* the text of a date in the format with separator sep
DateText(c, sep) == Str([sep |-> sep, y |-> c.y, m |-> c.m, d |-> c.d])

\* datetime.strftime(fmt), fmt given by its separator
strftime(ordinal, sep) == DateText(ord2ymd(ordinal), sep)

\* datetime.strptime(s, fmt): TypeError unless s is a string, ValueError unless
\* s has the layout of fmt and names a calendar day
strptime(s, sep) ==
    IF s.t # "str" THEN Raise("TypeError")
    ELSE IF "sep" \notin DOMAIN s.v THEN Raise("ValueError")
    ELSE IF s.v.sep # sep THEN Raise("ValueError")
    ELSE IF s.v.y \notin 1..9999 \/ s.v.m \notin 1..12 THEN Raise("ValueError")
    ELSE IF s.v.d \notin 1..DaysInMonth(s.v.y, s.v.m) THEN Raise("ValueError")
    ELSE Ok(ymd2ord(s.v.y, s.v.m, s.v.d))

-----------------------------------------------------------------------------
(* bloom_detector.py: BloomDetector *)

BloomDetectorInit ==
    [bloom_threshold_ndvi |-> 600,
     bloom_threshold_evi |-> 650,
     growth_rate_threshold |-> 50]

\* level in tenths; (ndvi+evi)/2*40 is (ndvi+evi)/5 tenths, never at a tie
_calculate_bloom_level(ndvi, evi, temp, precip) ==
    LET veg_factor5 == ndvi + evi
        temp_deviation == Abs(temp - 200)
        temp_factor == 3 * Max(0, 100 - temp_deviation)
        precip_factor == IF precip > 0 THEN 2 * Min(precip, 150) ELSE 50
        bloom_level5 == veg_factor5 + 5 * (temp_factor + precip_factor)
    IN  RoundDiv(Min(bloom_level5, 5000), 5, FALSE)

_get_status_message(status, level) ==
    LET messages ==
            [peak_bloom |-> "Floracion maxima detectada (% intensidad)",
             active_bloom |-> "Floracion activa (% intensidad)",
             early_bloom |-> "Inicio de floracion (% intensidad)",
             no_bloom |-> "No hay floracion activa (% vegetacion)"]
    IN  [text |-> messages[status], level |-> level]

\* the bands with the peak breakpoint excluded from its own band
BloomBand_exclusive(bloom_level) ==
    IF bloom_level > 700
    THEN [status |-> "peak_bloom", confidence |-> 850 + (bloom_level - 700),
          color |-> "#00ff00"]
    ELSE IF bloom_level > 500
    THEN [status |-> "active_bloom", confidence |-> 700 + (bloom_level - 500),
          color |-> "#90ee90"]
    ELSE IF bloom_level > 300
    THEN [status |-> "early_bloom", confidence |-> 550 + (bloom_level - 300),
          color |-> "#ffff00"]
    ELSE [status |-> "no_bloom", confidence |-> 400 + bloom_level,
          color |-> "#808080"]

\* status, raw confidence (thousandths) and colour of a level (tenths)
BloomBand(bloom_level) ==
    IF bloom_level >= 700
    THEN [status |-> "peak_bloom", confidence |-> 850 + (bloom_level - 700),
          color |-> "#00ff00"]
    ELSE IF bloom_level >= 500
    THEN [status |-> "active_bloom", confidence |-> 700 + (bloom_level - 500),
          color |-> "#90ee90"]
    ELSE IF bloom_level >= 300
    THEN [status |-> "early_bloom", confidence |-> 550 + (bloom_level - 300),
          color |-> "#ffff00"]
    ELSE [status |-> "no_bloom", confidence |-> 400 + bloom_level,
          color |-> "#808080"]

\* the confidence rounded without the 0.95 cap
CappedConfidence_uncapped(confidence, tieUp) ==
    RoundDiv(confidence, 10, tieUp)

\* round(min(confidence, 0.95), 2), in hundredths
CappedConfidence(confidence, tieUp) ==
    RoundDiv(Min(confidence, 950), 10, tieUp)

analyze_bloom(satellite_data, tieUp) ==
    LET ndvi == Get(satellite_data, "ndvi", 0)
        evi == Get(satellite_data, "evi", 0)
        temp == Get(satellite_data, "temperature", 200)
        precip == Get(satellite_data, "precipitation", 0)
        bloom_level == _calculate_bloom_level(ndvi, evi, temp, precip)
        band == BloomBand(bloom_level)
    IN  [status |-> band.status,
         level |-> bloom_level,
         confidence |-> CappedConfidence(band.confidence, tieUp),
         color |-> band.color,
         ndvi |-> ndvi,
         evi |-> evi,
         message |-> _get_status_message(band.status, bloom_level)]

\* A text constant of the code
Text(s) == Str([text |-> s])

\* the test with the bloom threshold included (>= instead of >)
ScanStep_inclusive(self, curr, next_data) ==
    IF "ndvi" \notin DOMAIN next_data THEN "KeyError"
    ELSE IF ~(next_data.ndvi >= self.bloom_threshold_ndvi) THEN "skip"
    ELSE IF "ndvi" \notin DOMAIN curr THEN "KeyError"
    ELSE IF ~(next_data.ndvi - curr.ndvi > self.growth_rate_threshold)
    THEN "skip"
    ELSE IF "date" \notin DOMAIN curr THEN "KeyError"
    ELSE "append"

\* lines 81-86, one turn of the loop: curr.date is appended, the pair is
\* skipped, or an entry lacks the field read.
\* ndvi differences are compared as decimals; the ndvi inputs drawn below are
\* values on which the comparison of the binary doubles gives the same answer.
ScanStep(self, curr, next_data) ==
    IF "ndvi" \notin DOMAIN next_data THEN "KeyError"
    ELSE IF ~(next_data.ndvi > self.bloom_threshold_ndvi) THEN "skip"
    ELSE IF "ndvi" \notin DOMAIN curr THEN "KeyError"
    ELSE IF ~(next_data.ndvi - curr.ndvi > self.growth_rate_threshold)
    THEN "skip"
    ELSE IF "date" \notin DOMAIN curr THEN "KeyError"
    ELSE "append"

\* lines 78-86: the dates of the bloom transitions in series order, or the
\* KeyError of the first turn that raises
ScanTransitions(self, historical_data) ==
    LET turns == 1..(Len(historical_data) - 1)
        step == [i \in turns |->
                    ScanStep(self, historical_data[i], historical_data[i + 1])]
        appended == SelectSeq([i \in turns |-> i],
                              LAMBDA i : step[i] = "append")
    IN  IF \E i \in turns : step[i] = "KeyError" THEN Raise("KeyError")
        ELSE Ok([k \in 1..Len(appended) |-> historical_data[appended[k]].date])

\* lines 115-119: the day gaps between consecutive dates, or the exception of
\* the first date that does not parse
Intervals(dates) ==
    LET parsed == [i \in 1..Len(dates) |-> strptime(dates[i], "")]
        raising == {i \in 1..Len(dates) : Raised(parsed[i])}
    IN  IF raising # {}
        THEN parsed[CHOOSE i \in raising : \A k \in raising : i <= k]
        ELSE Ok([i \in 1..(Len(dates) - 1) |->
                    parsed[i + 1].val - parsed[i].val])

RECURSIVE Sum(_)
Sum(seq) == IF seq = <<>> THEN 0 ELSE Head(seq) + Sum(Tail(seq))

_calculate_average_interval(dates) ==
    IF Len(dates) < 2 THEN Ok(90)
    ELSE
        LET intervals == Intervals(dates)
        IN  IF Raised(intervals) THEN intervals
            ELSE Ok(TruncDiv(Sum(intervals.val), Len(intervals.val)))

\* datetime + timedelta(days): OverflowError outside years 1..9999
AddDays(ordinal, days) ==
    IF ordinal + days \in 1..3652059 THEN Ok(ordinal + days)
    ELSE Raise("OverflowError")

\* the length test with 14 entries still counted as too few
TooShort_inclusive(historical_data) == Len(historical_data) <= 14

\* line 72
TooShort(historical_data) == Len(historical_data) < 14

predict_bloom_date(self, historical_data) ==
    IF TooShort(historical_data)
    THEN Ok([date |-> Text("Datos insuficientes"),
             probability |-> 0,
             peak_period |-> Text("N/A")])
    ELSE
        LET bloom_dates == ScanTransitions(self, historical_data)
        IN  IF Raised(bloom_dates) THEN bloom_dates
            ELSE IF bloom_dates.val = <<>>
            THEN Ok([date |-> Text("No hay patron historico"),
                     probability |-> 30,
                     peak_period |-> Text("Variable")])
            ELSE
                LET avg_interval == _calculate_average_interval(bloom_dates.val)
                    last_bloom == bloom_dates.val[Len(bloom_dates.val)]
                    last_bloom_date == strptime(last_bloom, "")
                IN  IF Raised(avg_interval) THEN avg_interval
                    ELSE IF Raised(last_bloom_date) THEN last_bloom_date
                    ELSE
                        LET predicted_date ==
                                AddDays(last_bloom_date.val, avg_interval.val)
                            probability ==
                                Min(95, 60 + Len(bloom_dates.val) * 5)
                        IN  IF Raised(predicted_date) THEN predicted_date
                            ELSE Ok([date |-> strftime(predicted_date.val, "-"),
                                     probability |-> probability,
                                     peak_period |->
                                         Str([days |-> avg_interval.val,
                                              text |-> "dias desde ultima floracion"]),
                                     historical_blooms |-> Len(bloom_dates.val)])

\* a sequence with one more element, or unchanged
AppendIf(cond, seq, elem) == IF cond THEN Append(seq, elem) ELSE seq

\* the climate band with the tropics' edge excluded from the tropics
EcosystemBand_exclusive(lat) ==
    IF -235000 < lat /\ lat < 235000 THEN "Tropical"
    ELSE IF 235000 <= Abs(lat) /\ Abs(lat) <= 665000 THEN "Templado"
    ELSE "Boreal/Polar"

\* lines 140, 149, 160
EcosystemBand(lat) ==
    IF -235000 <= lat /\ lat <= 235000 THEN "Tropical"
    ELSE IF 235000 < Abs(lat) /\ Abs(lat) <= 665000 THEN "Templado"
    ELSE "Boreal/Polar"

\* total_score > bound, with veg_score = (ndvi + evi) / 2 * 50 kept exact
_calculate_biodiversity_potential(ndvi, evi, temp, precip) ==
    LET temp_score == IF 150 < temp /\ temp < 280 THEN 30 ELSE 15
        precip_score == IF precip > 50 THEN 20 ELSE 10
        total_score40 == (ndvi + evi) + 40 * (temp_score + precip_score)
    IN  IF total_score40 > 40 * 80 THEN "Muy Alto - Ecosistema rico"
        ELSE IF total_score40 > 40 * 60 THEN "Alto - Biodiversidad significativa"
        ELSE IF total_score40 > 40 * 40 THEN "Moderado - Biodiversidad estandar"
        ELSE "Bajo - Ecosistema limitado"

\* [species_hints, ecological_notes] after the band rules of lines 139-164
BandRules(ecosystem_type, ndvi, temp, precip) ==
    IF ecosystem_type = "Tropical"
    THEN LET dense == ndvi > 700
             flowers == temp > 250 /\ precip > 100
         IN  [species_hints |->
                 AppendIf(flowers,
                     AppendIf(dense, <<>>, "Selva tropical densa"),
                     "Flores tropicales: Orquideas, Heliconias, Jengibre"),
              ecological_notes |->
                 AppendIf(flowers,
                     AppendIf(dense, <<>>, "Alta biodiversidad esperada"),
                     "Periodo optimo para polinizadores")]
    ELSE IF ecosystem_type = "Templado"
    THEN LET fruit == 150 < temp /\ temp < 250 /\ ndvi > 500
             wild == ndvi > 600 /\ 100 < temp /\ temp < 200
         IN  [species_hints |->
                 AppendIf(wild,
                     AppendIf(fruit,
                         AppendIf(fruit, <<>>, "Arboles frutales en floracion"),
                         "Posibles especies: Cerezos, Manzanos, Duraznos"),
                     "Flores silvestres de primavera"),
              ecological_notes |->
                 AppendIf(wild,
                     AppendIf(fruit, <<>>,
                         "Momento critico para control de plagas"),
                     "Importante para polinizadores nativos")]
    ELSE [species_hints |->
             AppendIf(ndvi > 300, <<>>, "Tundra floreciente o bosque boreal"),
          ecological_notes |->
             AppendIf(ndvi > 300, <<>>,
                 "Ventana corta de floracion - sensible a cambio climatico")]

\* lines 166-185 applied to the lists of the band rules
GeneralRules(lists, ndvi, evi, temp) ==
    LET agri == 400 < ndvi /\ ndvi < 700 /\ 500 < evi /\ evi < 800
        invasive == ndvi > 750 /\ temp < 100
        degraded == ndvi < 250
        hints1 == AppendIf(agri, lists.species_hints,
                           "Patron agricola detectado")
        hints2 == AppendIf(agri, hints1,
                     IF temp > 200
                     THEN "Cultivos posibles: Algodon, Girasoles, Canola"
                     ELSE "Cultivos de clima frio: Trigo, Cebada")
        hints3 == AppendIf(invasive, hints2,
                           "ALERTA: Posible especie invasora")
        hints4 == AppendIf(degraded, hints3, "Vegetacion escasa o degradada")
        notes1 == AppendIf(agri /\ temp > 200, lists.ecological_notes,
                     "Fase pre-floracion critica para aplicacion de fertilizantes")
        notes2 == AppendIf(invasive, notes1,
                           "Floracion anomala fuera de temporada normal")
        notes3 == AppendIf(invasive, notes2,
                           "Requiere inspeccion de campo urgente")
        notes4 == AppendIf(degraded, notes3,
                           "Posible desertificacion o sobreexplotacion")
        notes5 == AppendIf(degraded, notes4,
                           "Area prioritaria para restauracion")
    IN  [species_hints |-> hints4, ecological_notes |-> notes5]

\* the confidence counted on the list that is returned, default included
HintConfidence_returned(species_hints) ==
    LET returned == IF species_hints # <<>> THEN species_hints
                    ELSE <<"Vegetacion general">>
    IN  IF Len(returned) > 2 THEN "Alta"
        ELSE IF Len(returned) > 0 THEN "Media"
        ELSE "Baja"

\* line 195, on the hints the rules collected
HintConfidence(species_hints) ==
    IF Len(species_hints) > 2 THEN "Alta"
    ELSE IF Len(species_hints) > 0 THEN "Media"
    ELSE "Baja"

\* location.lat is a tagged value: comparing None with a number is a TypeError
identify_species_type(satellite_data, location) ==
    LET ndvi == Get(satellite_data, "ndvi", 0)
        evi == Get(satellite_data, "evi", 0)
        temp == Get(satellite_data, "temperature", 200)
        precip == Get(satellite_data, "precipitation", 0)
        lat == Get(location, "lat", Num(0))
    IN  IF ~IsNum(lat) THEN Raise("TypeError")
        ELSE
            LET ecosystem_type == EcosystemBand(lat.v)
                lists == GeneralRules(
                             BandRules(ecosystem_type, ndvi, temp, precip),
                             ndvi, evi, temp)
                species_hints == lists.species_hints
                ecological_notes == lists.ecological_notes
            IN  Ok([ecosystem_type |-> ecosystem_type,
                    species_hints |->
                        IF species_hints # <<>> THEN species_hints
                        ELSE <<"Vegetacion general">>,
                    ecological_notes |->
                        IF ecological_notes # <<>> THEN ecological_notes
                        ELSE <<"Condiciones normales">>,
                    biodiversity_potential |->
                        _calculate_biodiversity_potential(ndvi, evi, temp, precip),
                    confidence |-> HintConfidence(species_hints),
                    conservation_priority |->
                        IF ndvi > 600 \/ ndvi < 300 THEN "Alta" ELSE "Media"])

-----------------------------------------------------------------------------
(* nasa_api.py: NASADataFetcher *)

NASADataFetcherInit ==
    [nasa_api_key |-> "DEMO_KEY",
     power_api_url |-> "https://power.larc.nasa.gov/api/temporal/daily/point"]

\* the formula with temp_factor not clamped to [0, 1]
_calculate_simulated_ndvi_unclamped(temp, precip) ==
    IF ~IsNum(temp) \/ ~IsNum(precip) THEN Raise("TypeError")
    ELSE
        LET tf300 == 300 - Abs(temp.v - 200)
            pf100 == IF precip.v > 0 THEN Min(precip.v, 100) ELSE 30
            ndvi == 18 * tf300 + 36 * pf100
        IN  Ok(Min(9500, ndvi))

\* ndvi in ten-thousandths, exact for temp and precip in tenths:
\* temp_factor = clamp(300 - |temp-200|, 0, 300) / 300,
\* precip_factor = min(precip, 100) / 100 or 30/100,
\* (temp_factor*0.6 + precip_factor*0.4)*0.9 = (18*tf300 + 36*pf100) / 10000.
\* TypeError when temp or precip is not a number.
_calculate_simulated_ndvi(temp, precip) ==
    IF ~IsNum(temp) \/ ~IsNum(precip) THEN Raise("TypeError")
    ELSE
        LET tf300 == Max(0, Min(300, 300 - Abs(temp.v - 200)))
            pf100 == IF precip.v > 0 THEN Min(precip.v, 100) ELSE 30
            ndvi == 18 * tf300 + 36 * pf100
        IN  Ok(Max(0, Min(9500, ndvi)))

\* draw = [u, temperature, precipitation]: the three random.uniform results,
\* u in thousandths.  With base_ndvi = (q + r/900000) thousandths and
\* 115*q = 100*a + b, base_ndvi * 1.15 is a + (b*900000 + 115*r)/90000000.
_get_fallback_data(lat, lon, draw, now, tieUp) ==
    IF ~IsNum(lat) THEN Raise("TypeError")
    ELSE
        LET base == 400 * 900000 + draw.u * (900000 - Abs(lat.v))
            q == base \div 900000
            r == base % 900000
            a == (115 * q) \div 100
            b == (115 * q) % 100
        IN  Ok([ndvi |-> RoundDiv(base, 900000, tieUp),
                evi |-> a + RoundDiv(b * 900000 + 115 * r, 90000000, tieUp),
                temperature |-> 150 + draw.temperature,
                precipitation |-> draw.precipitation,
                date |-> strftime(now, "")])

\* a lookup that treats an absent or empty parameter as an error
FirstValue_required(d, default) ==
    IF d.t # "object" THEN Raise("AttributeError")
    ELSE IF d.values = <<>> THEN Raise("IndexError")
    ELSE Ok(d.values[1])

\* list(d.values())[0] if d else default; a parameter that is not a JSON
\* object has no .values() (AttributeError)
FirstValue(d, default) ==
    IF d.t # "object" THEN Raise("AttributeError")
    ELSE IF d.values = <<>> THEN Ok(default)
    ELSE Ok(d.values[1])

\* lines 34-52: the derived sample of a 200 response
DerivedSample(body, date) ==
    IF body.json = "invalid" THEN Raise("ValueError")
    ELSE IF body.json # "object" THEN Raise("AttributeError")
    ELSE
        LET temp_val == FirstValue(body.T2M, Num(200))
            precip_val == FirstValue(body.PRECTOTCORR, Num(0))
        IN  IF Raised(temp_val) THEN temp_val
            ELSE IF Raised(precip_val) THEN precip_val
            ELSE
                LET ndvi == _calculate_simulated_ndvi(temp_val.val, precip_val.val)
                IN  IF Raised(ndvi) THEN ndvi
                    ELSE
                        LET evi5 == IF ndvi.val < 8300 THEN 12 * ndvi.val
                                    ELSE 10 * ndvi.val
                        IN  Ok([ndvi |-> RoundDiv(ndvi.val, 10, FALSE),
                                evi |-> RoundDiv(evi5, 100, FALSE),
                                temperature |-> temp_val.val.v,
                                precipitation |-> precip_val.val.v,
                                date |-> date])

\* the lookup without its except clause: a failed request propagates
get_vegetation_index_unguarded(lat, lon, date0, env) ==
    LET date == IF date0 = PyNone THEN strftime(env.now, "") ELSE date0
    IN  [out |-> IF env.provider.kind # "response"
                 THEN Raise(env.provider.kind)
                 ELSE IF env.provider.status_code = 200
                 THEN DerivedSample(env.provider.body, date)
                 ELSE _get_fallback_data(lat, lon, env.draw, env.now, env.tieUp),
         requests |-> 1]

\* env = [provider, draw, now, tieUp]: the provider's answer to the one request,
\* the random draws of the fallback, the clock, the rounding of decimal ties.
\* Returns [out, requests]: the sample or exception, and the requests issued.
get_vegetation_index(lat, lon, date0, env) ==
    [out |-> Except(
                IF env.provider.kind # "response"
                THEN Raise(env.provider.kind)
                ELSE IF env.provider.status_code = 200
                THEN DerivedSample(env.provider.body,
                         IF date0 = PyNone THEN strftime(env.now, "") ELSE date0)
                ELSE _get_fallback_data(lat, lon, env.draw, env.now, env.tieUp),
                _get_fallback_data(lat, lon, env.draw, env.now, env.tieUp)),
     requests |-> 1]

Reverse(seq) == [i \in 1..Len(seq) |-> seq[Len(seq) + 1 - i]]

\* lines 86-98; the lookup of day i is independent of the others and
\* envs[i+1] is its environment, envs[1] carries the clock of the call.  The
\* loop stops at the first lookup that raises.
get_historical_data(lat, lon, days, envs) ==
    LET end_date == envs[1].now
        date(i) == strftime(end_date - i, "")
        data == [j \in 1..days |->
                    get_vegetation_index(lat, lon, date(j - 1), envs[j])]
        raising == {j \in 1..days : Raised(data[j].out)}
        historical == [j \in 1..days |->
                          [date |-> date(j - 1),
                           ndvi |-> data[j].out.val.ndvi,
                           evi |-> data[j].out.val.evi]]
    IN  IF raising # {}
        THEN LET first == CHOOSE j \in raising : \A k \in raising : j <= k
             IN  [out |-> data[first].out,
                  requests |-> Sum([j \in 1..first |-> data[j].requests])]
        ELSE [out |-> Ok(Reverse(historical)),
              requests |-> Sum([j \in 1..days |-> data[j].requests])]

\* lines 111-125: the loop from current on; k lookups were made before
RECURSIVE TimeSeriesFrom(_, _, _, _, _, _, _)
TimeSeriesFrom(lat, lon, current, end, envs, k, acc) ==
    IF ~(current <= end) THEN [out |-> Ok(acc), requests |-> 0]
    ELSE
        LET date_str == strftime(current, "")
            data == get_vegetation_index(lat, lon, date_str, envs[k + 1])
        IN  IF Raised(data.out) THEN data
            ELSE
                LET ndvi == data.out.val.ndvi
                    acc2 ==
                        [dates |-> Append(acc.dates, strftime(current, "-")),
                         ndvi |-> Append(acc.ndvi, ndvi),
                         evi |-> Append(acc.evi, data.out.val.evi),
                         bloom_events |->
                            AppendIf(ndvi > 600, acc.bloom_events,
                                     [date |-> strftime(current, "-"),
                                      intensity |-> ndvi])]
                    next == AddDays(current, 7)
                    rest == TimeSeriesFrom(lat, lon, next.val, end, envs,
                                           k + 1, acc2)
                IN  IF Raised(next)
                    THEN [out |-> next, requests |-> data.requests]
                    ELSE [out |-> rest.out,
                          requests |-> data.requests + rest.requests]

get_time_series(lat, lon, start_date, end_date, envs) ==
    LET start == strptime(start_date, "-")
        end == strptime(end_date, "-")
    IN  IF Raised(start) THEN [out |-> start, requests |-> 0]
        ELSE IF Raised(end) THEN [out |-> end, requests |-> 0]
        ELSE TimeSeriesFrom(lat, lon, start.val, end.val, envs, 0,
                 [dates |-> <<>>, ndvi |-> <<>>, evi |-> <<>>,
                  bloom_events |-> <<>>])

-----------------------------------------------------------------------------
(* app.py: the request handlers.  data is request.json: [t |-> "none"] or   *)
(* [t |-> "object", fields |-> ...]; envs[k] is the environment of the k-th *)
(* provider lookup of the request.  A handler body returns [out, requests]; *)
(* out is the JSON of success or the exception that reached the except.     *)

\* data.get(key): AttributeError is raised before this when data is None
JsonGet(data, key) ==
    IF key \in DOMAIN data.fields THEN data.fields[key] ELSE PyNone

JsonGetDefault(data, key, default) ==
    IF key \in DOMAIN data.fields THEN data.fields[key] ELSE default

Failed(exc, requests) == [out |-> Raise(exc), requests |-> requests]

\* requests more were issued before result was reached
AddRequests(requests, result) ==
    [out |-> result.out, requests |-> requests + result.requests]

\* a handler whose except clause lets everything but KeyError through
JsonOrError500_narrow(result) ==
    IF Raised(result.out) /\ result.out.exc = "KeyError"
    THEN [status |-> 500,
          body |-> [success |-> FALSE, error |-> result.out.exc]]
    ELSE IF Raised(result.out) THEN result.out
    ELSE [status |-> 200, body |-> result.out.val]

\* try: ... return jsonify(response)
\* except Exception as e: return jsonify({success: False, error: str(e)}), 500
JsonOrError500(result) ==
    IF Raised(result.out)
    THEN [status |-> 500,
          body |-> [success |-> FALSE, error |-> result.out.exc]]
    ELSE [status |-> 200, body |-> result.out.val]

\* lines 31-56
get_bloom_data(fetcher, detector, data, envs) ==
    IF data.t # "object" THEN Failed("AttributeError", 0)
    ELSE
        LET lat == JsonGet(data, "latitude")
            lon == JsonGet(data, "longitude")
            date == JsonGetDefault(data, "date", strftime(envs[1].now, "-"))
            satellite_data == get_vegetation_index(lat, lon, date, envs[1])
        IN  IF Raised(satellite_data.out) THEN satellite_data
            ELSE
                LET sat == satellite_data.out.val
                    bloom_status == analyze_bloom(sat, envs[1].tieUp)
                    species_info ==
                        identify_species_type(sat, [lat |-> lat, lon |-> lon])
                IN  IF Raised(species_info)
                    THEN [out |-> species_info,
                          requests |-> satellite_data.requests]
                    ELSE [out |-> Ok([success |-> TRUE,
                                      location |-> [lat |-> lat, lon |-> lon],
                                      date |-> date,
                                      bloom_status |-> bloom_status,
                                      ndvi |-> sat.ndvi,
                                      evi |-> sat.evi,
                                      confidence |-> bloom_status.confidence,
                                      species_info |-> species_info.val]),
                          requests |-> satellite_data.requests]

\* lines 65-80
predict_bloom(fetcher, detector, data, envs) ==
    IF data.t # "object" THEN Failed("AttributeError", 0)
    ELSE
        LET lat == JsonGet(data, "latitude")
            lon == JsonGet(data, "longitude")
            historical_data == get_historical_data(lat, lon, 90, envs)
        IN  IF Raised(historical_data.out) THEN historical_data
            ELSE
                LET prediction ==
                        predict_bloom_date(detector, historical_data.out.val)
                IN  IF Raised(prediction)
                    THEN [out |-> prediction,
                          requests |-> historical_data.requests]
                    ELSE [out |-> Ok([success |-> TRUE,
                                      predicted_bloom_date |-> prediction.val.date,
                                      probability |-> prediction.val.probability,
                                      peak_period |-> prediction.val.peak_period]),
                          requests |-> historical_data.requests]

\* lines 90-97, in ten-thousandths of a degree
regions ==
    <<[name |-> "Amazon", lat |-> -34653, lon |-> -622159],
      [name |-> "Sahel", lat |-> 150000, lon |-> 0],
      [name |-> "Mediterranean", lat |-> 400000, lon |-> 100000],
      [name |-> "North America", lat |-> 400000, lon |-> -1000000],
      [name |-> "Southeast Asia", lat |-> 100000, lon |-> 1050000],
      [name |-> "Australia", lat |-> -250000, lon |-> 1350000]>>

\* lines 99-112: the loop from region k on
RECURSIVE GlobalDataFrom(_, _, _)
GlobalDataFrom(envs, k, global_data) ==
    IF k > Len(regions) THEN [out |-> Ok(global_data), requests |-> 0]
    ELSE
        LET region == regions[k]
            satellite_data ==
                get_vegetation_index(Num(region.lat), Num(region.lon), PyNone,
                                     envs[k])
        IN  IF Raised(satellite_data.out) THEN satellite_data
            ELSE
                LET bloom_status ==
                        analyze_bloom(satellite_data.out.val, envs[k].tieUp)
                    rest == GlobalDataFrom(envs, k + 1,
                                Append(global_data,
                                       [name |-> region.name,
                                        lat |-> region.lat,
                                        lon |-> region.lon,
                                        bloom_level |-> bloom_status.level,
                                        status |-> bloom_status.status]))
                IN  [out |-> rest.out,
                     requests |-> satellite_data.requests + rest.requests]

\* lines 88-114
global_bloom_map(fetcher, detector, envs) ==
    LET global_data == GlobalDataFrom(envs, 1, <<>>)
    IN  IF Raised(global_data.out) THEN global_data
        ELSE [out |-> Ok([success |-> TRUE, data |-> global_data.out.val]),
              requests |-> global_data.requests]

\* lines 123-137
get_time_series_route(fetcher, detector, data, envs) ==
    IF data.t # "object" THEN Failed("AttributeError", 0)
    ELSE
        LET lat == JsonGet(data, "latitude")
            lon == JsonGet(data, "longitude")
            start_date == JsonGet(data, "start_date")
            end_date == JsonGet(data, "end_date")
            time_series == get_time_series(lat, lon, start_date, end_date, envs)
        IN  IF Raised(time_series.out) THEN time_series
            ELSE [out |-> Ok([success |-> TRUE,
                              dates |-> time_series.out.val.dates,
                              ndvi_values |-> time_series.out.val.ndvi,
                              evi_values |-> time_series.out.val.evi,
                              bloom_events |-> time_series.out.val.bloom_events]),
                  requests |-> time_series.requests]

RECURSIVE YearDataFrom(_, _, _, _, _, _, _, _)

\* line 162 and the next turn, satellite_data being the lookup's result
YearDataNext(lat, lon, year, months, envs, mi, k, year_data, satellite_data) ==
    IF Raised(satellite_data.out) THEN satellite_data
    ELSE AddRequests(satellite_data.requests,
            YearDataFrom(lat, lon, year, months, envs, mi + 1, k + 1,
                         Append(year_data, satellite_data.out.val.ndvi)))

\* lines 159-162: the lookups of months mi.. of one year; k lookups before
YearDataFrom(lat, lon, year, months, envs, mi, k, year_data) ==
    IF mi > Len(months) THEN [out |-> Ok(year_data), requests |-> 0]
    ELSE YearDataNext(lat, lon, year, months, envs, mi, k, year_data,
            get_vegetation_index(lat, lon,
                Str([sep |-> "", y |-> year, m |-> months[mi], d |-> 15]),
                envs[k + 1]))

\* lines 164-170: the entry of one year
YearEntry(year, northern, values) ==
    [year |-> year,
     avg_ndvi |-> RoundDiv(Sum(values), Len(values), FALSE),
     months |-> IF northern THEN <<"Marzo", "Abril", "Mayo">>
                ELSE <<"Sep", "Oct", "Nov">>,
     values |-> values]

RECURSIVE ComparisonFrom(_, _, _, _, _, _)

\* lines 164-170 and the next turn, year_data being the result of the
\* lookups of the year
ComparisonNext(lat, lon, years, envs, yi, comparison_data, year_data) ==
    IF Raised(year_data.out) THEN year_data
    ELSE AddRequests(year_data.requests,
            ComparisonFrom(lat, lon, years, envs, yi + 1,
                Append(comparison_data,
                       YearEntry(years[yi], lat.v >= 0, year_data.out.val))))

\* lines 154-170: the loop from year yi on
ComparisonFrom(lat, lon, years, envs, yi, comparison_data) ==
    IF yi > Len(years) THEN [out |-> Ok(comparison_data), requests |-> 0]
    ELSE IF ~IsNum(lat) THEN Failed("TypeError", 0)
    ELSE ComparisonNext(lat, lon, years, envs, yi, comparison_data,
            YearDataFrom(lat, lon, years[yi],
                         IF lat.v >= 0 THEN <<3, 4, 5>> ELSE <<9, 10, 11>>,
                         envs, 1, 3 * (yi - 1), <<>>))

\* lines 172-192 for the averages first and last of the first and last year.
\* Percentages are compared as decimals.
TrendReport(comparison_data, first, last, years, tieUp) ==
    LET trend == IF last > first THEN "increasing" ELSE "decreasing"
        \* |change_pct| > bound
        Exceeds(bound) ==
            first > 0 /\ Abs(last - first) * 100 > bound * first
        change_percentage ==
            IF first > 0 THEN RoundDiv((last - first) * 1000, first, tieUp)
            ELSE 0
    IN  [success |-> TRUE,
         years_data |-> comparison_data,
         trend |-> trend,
         change_percentage |-> change_percentage,
         climate_impact |->
            IF Exceeds(15) THEN "Critico - Cambio significativo detectado"
            ELSE IF Exceeds(8) THEN "Moderado - Requiere monitoreo"
            ELSE "Bajo - Variacion normal",
         interpretation |->
            [verb |-> IF trend = "increasing" THEN "aumentado"
                      ELSE "disminuido",
             percent |-> Abs(change_percentage),
             years |-> Len(years)]]

\* lines 172-192, comparison being the result of the loop over years
ComparisonResponse(comparison, years, tieUp) ==
    IF Raised(comparison.out) THEN comparison
    ELSE IF comparison.out.val = <<>>
    THEN Failed("IndexError", comparison.requests)
    ELSE [out |-> Ok(TrendReport(comparison.out.val,
                         comparison.out.val[1].avg_ndvi,
                         comparison.out.val[Len(comparison.out.val)].avg_ndvi,
                         years, tieUp)),
          requests |-> comparison.requests]

\* lines 147-192; years is a tagged list or None
multi_year_comparison(fetcher, detector, data, envs) ==
    IF data.t # "object" THEN Failed("AttributeError", 0)
    ELSE
        LET years == JsonGetDefault(data, "years",
                                    [t |-> "list", v |-> <<2023, 2024, 2025>>])
        IN  IF years.t # "list" THEN Failed("TypeError", 0)
            ELSE ComparisonResponse(
                    ComparisonFrom(JsonGet(data, "latitude"),
                                   JsonGet(data, "longitude"),
                                   years.v, envs, 1, <<>>),
                    years.v, envs[1].tieUp)

\* lines 202-252; priority_score = ndvi * 100 in tenths is ndvi in thousandths
\* the thresholds taken on the scale of ndvi, 0.6 and 0.3, against the score
PriorityLevel_unscaled(priority_score) ==
    IF priority_score > 6 THEN "Alta"
    ELSE IF priority_score > 3 THEN "Media"
    ELSE "Baja"

\* line 251; priority_score = ndvi * 100 in tenths, thresholds 60 and 30
PriorityLevel(priority_score) ==
    IF priority_score > 600 THEN "Alta"
    ELSE IF priority_score > 300 THEN "Media"
    ELSE "Baja"

conservation_alerts(fetcher, detector, data, envs) ==
    IF data.t # "object" THEN Failed("AttributeError", 0)
    ELSE
        LET lat == JsonGet(data, "latitude")
            lon == JsonGet(data, "longitude")
            satellite_data == get_vegetation_index(lat, lon, PyNone, envs[1])
        IN  IF Raised(satellite_data.out) THEN satellite_data
            ELSE
                LET sat == satellite_data.out.val
                    bloom_status == analyze_bloom(sat, envs[1].tieUp)
                    ndvi == Get(sat, "ndvi", 0)
                    degraded == ndvi < 300
                    invasive == ndvi > 800 /\ Get(sat, "temperature", 200) < 150
                    peak == bloom_status.level > 700
                    alerts1 == AppendIf(degraded, <<>>,
                                  [level |-> "critical", type |-> "Degradacion"])
                    alerts2 == AppendIf(invasive, alerts1,
                                  [level |-> "warning", type |-> "Especie Invasora"])
                    alerts3 == AppendIf(peak, alerts2,
                                  [level |-> "info", type |-> "Oportunidad"])
                    rec1 == AppendIf(degraded, <<>>,
                                "Investigar causas de perdida de vegetacion")
                    rec2 == AppendIf(degraded, rec1,
                                "Implementar medidas de restauracion urgentes")
                    rec3 == AppendIf(invasive, rec2,
                                "Realizar inspeccion de campo")
                    rec4 == AppendIf(invasive, rec3,
                                "Verificar especies no nativas")
                    rec5 == AppendIf(peak, rec4, "Ubicar colmenas en la zona")
                    rec6 == AppendIf(peak, rec5,
                                "Planificar actividades de turismo ecologico")
                    priority_score == ndvi
                IN  [out |-> Ok([success |-> TRUE,
                                 alerts |-> alerts3,
                                 recommendations |-> rec6,
                                 priority_score |-> priority_score,
                                 priority_level |->
                                    PriorityLevel(priority_score)]),
                     requests |-> satellite_data.requests]

-----------------------------------------------------------------------------
(* Specification of the scorer: analyze_bloom applied to one ClimateSample *)

ScoreNdvi == {0, 300, 600, 950}

ScoreEvi == {5 * k : k \in 0..EviSteps}

ScoreTemperature == {-100, 100, 133, 150, 200, 239, 320}

ScorePrecipitation == {-10, 0, 1, 75, 150, 200}

ScoreInputs ==
    [op : {"analyze_bloom"},
     satellite_data :
        [ndvi : ScoreNdvi, evi : ScoreEvi,
         temperature : ScoreTemperature, precipitation : ScorePrecipitation],
     tieUp : BOOLEAN]

InitScore ==
    /\ pc = "call"
    /\ arg \in ScoreInputs
    /\ ret = Unset
    /\ outbound = 0
    /\ nasa_fetcher = NASADataFetcherInit
    /\ bloom_detector = BloomDetectorInit

AnalyzeBloom ==
    /\ pc = "call"
    /\ pc' = "done"
    /\ ret' = Ok(analyze_bloom(arg.satellite_data, arg.tieUp))
    /\ UNCHANGED <<arg, outbound, nasa_fetcher, bloom_detector>>

NextScore == AnalyzeBloom

SpecScore == InitScore /\ [][NextScore]_vars

-----------------------------------------------------------------------------
(* Specification of the climate source: one get_vegetation_index call *)

JsonObject(vals) == [t |-> "object", values |-> vals]

\* T2M / PRECTOTCORR of the payload: absent or empty, one numeric value,
\* one non-numeric value, or not an object at all
FetchT2M ==
    {JsonObject(<<>>), JsonObject(<<Str("n/a")>>), [t |-> "array"]}
        \cup {JsonObject(<<Num(x)>>) : x \in {-300, 50, 200, 239, 500}}

FetchPRECTOTCORR ==
    {JsonObject(<<>>), JsonObject(<<PyNone>>)}
        \cup {JsonObject(<<Num(x)>>) : x \in {-5, 0, 50, 100, 120}}

FetchBodies ==
    [json : {"object"}, T2M : FetchT2M, PRECTOTCORR : FetchPRECTOTCORR]
        \cup {[json |-> "array"], [json |-> "invalid"]}

ProviderOutcomes ==
    [kind : {"response"}, status_code : {200}, body : FetchBodies]
        \cup [kind : {"response"}, status_code : {204, 404, 500},
              body : {[json |-> "invalid"]}]
        \cup {[kind |-> "Timeout"], [kind |-> "ConnectionError"]}

\* random.uniform(0, 0.3), random.uniform(-5, 15), random.uniform(0, 20)
FallbackDraws ==
    [u : {0, 150, 300}, temperature : {-50, 23, 150}, precipitation : {0, 100, 200}]

Today == ymd2ord(2026, 11, 1)

FetchLat ==
    {Num(-900000), Num(-34653), Num(0), Num(450000), Num(900000),
     Num(2700000), PyNone}

FetchLon == {Num(0), PyNone}

FetchDate == {PyNone, Str([sep |-> "", y |-> 2024, m |-> 1, d |-> 8])}

FetchInputs ==
    [op : {"get_vegetation_index"}, lat : FetchLat, lon : FetchLon,
     date : FetchDate, provider : ProviderOutcomes, now : {Today}]

InitFetch ==
    /\ pc = "call"
    /\ arg \in FetchInputs
    /\ ret = Unset
    /\ outbound = 0
    /\ nasa_fetcher = NASADataFetcherInit
    /\ bloom_detector = BloomDetectorInit

GetVegetationIndex ==
    /\ pc = "call"
    /\ \E draw \in FallbackDraws, tieUp \in BOOLEAN :
          LET r == get_vegetation_index(arg.lat, arg.lon, arg.date,
                       [provider |-> arg.provider, draw |-> draw,
                        now |-> arg.now, tieUp |-> tieUp])
          IN  /\ ret' = r.out
              /\ outbound' = outbound + r.requests
    /\ pc' = "done"
    /\ UNCHANGED <<arg, nasa_fetcher, bloom_detector>>

NextFetch == GetVegetationIndex

SpecFetch == InitFetch /\ [][NextFetch]_vars

-----------------------------------------------------------------------------
(* Specification of the predictor: predict_bloom_date applied to one series *)

\* 0.6 is the bloom threshold itself, 0.64 -> 0.69 differ by exactly 0.05
PredictNdvi == {500, 600, 640, 690, 700}

\* days between consecutive entries: daily, weekly, or descending by 3 days
PredictSteps == <<1, 7, -3>>

PredictStart == ymd2ord(2024, 1, 1)

\* entry i of a series: the ndvi of the head, then 0.5, dated by the step
SeriesEntry(head, step, i) ==
    [ndvi |-> IF i <= Len(head) THEN head[i] ELSE 500,
     date |-> strftime(PredictStart + step * (i - 1), "")]

\* an entry without the named field
Without(entry, field) ==
    [f \in DOMAIN entry \ {field} |-> entry[f]]

PredictDefects == {"no ndvi in entry 2", "no date in entry 1"}

MakeSeries(head, step, n, defect) ==
    [i \in 1..n |->
        IF defect = "no ndvi in entry 2" /\ i = 2
        THEN Without(SeriesEntry(head, step, i), "ndvi")
        ELSE IF defect = "no date in entry 1" /\ i = 1
        THEN Without(SeriesEntry(head, step, i), "date")
        ELSE SeriesEntry(head, step, i)]

PredictLengths == {0, 13} \cup (14..(14 + ExtraLen))

\* series of complete entries, and daily series with one incomplete entry
PredictCase(step, n, defect) ==
    \/ defect = "none"
    \/ defect \in PredictDefects /\ step = 1 /\ n \in {13, 14}

InitPredict ==
    /\ pc = "call"
    /\ \E k \in DOMAIN PredictSteps, head \in [1..HeadLen -> PredictNdvi],
          n \in PredictLengths, defect \in PredictDefects \cup {"none"} :
            /\ PredictCase(PredictSteps[k], n, defect)
            /\ arg = [op |-> "predict_bloom_date",
                      historical_data |->
                          MakeSeries(head, PredictSteps[k], n, defect)]
    /\ ret = Unset
    /\ outbound = 0
    /\ nasa_fetcher = NASADataFetcherInit
    /\ bloom_detector = BloomDetectorInit

PredictBloomDate ==
    /\ pc = "call"
    /\ pc' = "done"
    /\ ret' = predict_bloom_date(bloom_detector, arg.historical_data)
    /\ UNCHANGED <<arg, outbound, nasa_fetcher, bloom_detector>>

NextPredict == PredictBloomDate

SpecPredict == InitPredict /\ [][NextPredict]_vars

-----------------------------------------------------------------------------
(* Specification of the classifier: identify_species_type applied once *)

ClassifyLat ==
    {-900000, -665001, -665000, -235001, -235000, 0, 235000, 235001, 450000,
     665000, 665001, 900000}

ClassifyNdvi == {200, 250, 280, 310, 450, 550, 650, 700, 720, 800}

ClassifyEvi == {400, 500, 600, 800, 960}

ClassifyTemperature == {50, 100, 120, 150, 180, 200, 220, 250, 260, 300}

ClassifyPrecipitation == {0, 50, 60, 100, 120}

ClassifyInputs ==
    [op : {"identify_species_type"},
     satellite_data :
        [ndvi : ClassifyNdvi, evi : ClassifyEvi,
         temperature : ClassifyTemperature,
         precipitation : ClassifyPrecipitation],
     location : [lat : {Num(x) : x \in ClassifyLat}, lon : {Num(0)}]]

InitClassify ==
    /\ pc = "call"
    /\ arg \in ClassifyInputs
    /\ ret = Unset
    /\ outbound = 0
    /\ nasa_fetcher = NASADataFetcherInit
    /\ bloom_detector = BloomDetectorInit

IdentifySpeciesType ==
    /\ pc = "call"
    /\ pc' = "done"
    /\ ret' = identify_species_type(arg.satellite_data, arg.location)
    /\ UNCHANGED <<arg, outbound, nasa_fetcher, bloom_detector>>

NextClassify == IdentifySpeciesType

SpecClassify == InitClassify /\ [][NextClassify]_vars

-----------------------------------------------------------------------------
(* Specification of the service: requests are received and answered one     *)
(* after the other by the handlers of app.py                                *)

\* days=90 of get_historical_data: the most lookups one request makes
HistoryDays == 90

Response200(t2m, prectotcorr) ==
    [kind |-> "response", status_code |-> 200,
     body |-> [json |-> "object", T2M |-> JsonObject(<<Num(t2m)>>),
               PRECTOTCORR |-> JsonObject(<<Num(prectotcorr)>>)]]

\* what the provider does with one lookup
AppProviders ==
    {Response200(239, 120), Response200(50, 0), Response200(-300, 0),
     Response200(145, 100), Response200(145, 150), Response200(6, 0),
     Response200(7, 0),
     [kind |-> "response", status_code |-> 200,
      body |-> [json |-> "object", T2M |-> JsonObject(<<>>),
                PRECTOTCORR |-> JsonObject(<<>>)]],
     [kind |-> "response", status_code |-> 200,
      body |-> [json |-> "object", T2M |-> JsonObject(<<Str("n/a")>>),
                PRECTOTCORR |-> JsonObject(<<Num(50)>>)]],
     [kind |-> "response", status_code |-> 200, body |-> [json |-> "invalid"]],
     [kind |-> "response", status_code |-> 500, body |-> [json |-> "invalid"]],
     [kind |-> "Timeout"]}

AppDraws ==
    {[u |-> 0, temperature |-> -50, precipitation |-> 0],
     [u |-> 300, temperature |-> 150, precipitation |-> 200]}

Env(provider, draw, tieUp) ==
    [provider |-> provider, draw |-> draw, now |-> Today, tieUp |-> tieUp]

AppEnvs == {Env(p, d, t) : p \in AppProviders, d \in AppDraws, t \in BOOLEAN}

\* the environments of the lookups of the regional map and of the series
MapEnvs ==
    {Env(Response200(239, 120), CHOOSE d \in AppDraws : d.u = 0, FALSE),
     Env([kind |-> "response", status_code |-> 200,
          body |-> [json |-> "invalid"]],
         CHOOSE d \in AppDraws : d.u = 300, TRUE),
     Env([kind |-> "response", status_code |-> 500,
          body |-> [json |-> "invalid"]],
         CHOOSE d \in AppDraws : d.u = 0, FALSE),
     Env([kind |-> "Timeout"], CHOOSE d \in AppDraws : d.u = 300, FALSE)}

\* lookups answered like a for stride lookups, then like b for stride, ...
Alternating(a, b, stride) ==
    [i \in 1..HistoryDays |-> IF ((i - 1) \div stride) % 2 = 0 THEN a ELSE b]

Worlds(strides) == [a : MapEnvs, b : MapEnvs, stride : strides]

Absent == [absent |-> TRUE]

WithField(fields, key, value) ==
    IF value = Absent THEN fields ELSE fields @@ (key :> value)

JsonBody(fields) == [t |-> "object", fields |-> fields]

Coordinates(lat, lon) ==
    WithField(WithField(<<>>, "latitude", lat), "longitude", lon)

AppLat == {Absent, Num(-34653), Num(450000)}

AppLon == {Absent, Num(100000)}

Day(sep, y, m, d) == Str([sep |-> sep, y |-> y, m |-> m, d |-> d])

\* start_date / end_date of a time-series request
AppRanges ==
    {<<Day("-", 2026, 1, 1), Day("-", 2026, 1, 15)>>,
     <<Day("-", 2026, 1, 15), Day("-", 2026, 1, 1)>>,
     <<Day("-", 2026, 2, 30), Day("-", 2026, 3, 15)>>,
     <<Day("-", 2026, 1, 1), Day("", 2026, 1, 15)>>,
     <<Text("last spring"), Day("-", 2026, 1, 15)>>,
     <<Day("-", 9999, 12, 20), Day("-", 9999, 12, 31)>>,
     <<Absent, Day("-", 2026, 1, 15)>>,
     <<Day("-", 2026, 1, 1), Absent>>,
     <<Absent, Absent>>}

AppYears ==
    {Absent, PyNone} \cup
        {[t |-> "list", v |-> ys] : ys \in {<<>>, <<2024>>, <<2023, 2024>>}}

NullBody == [t |-> "none"]

Requests ==
    {[route |-> "/api/bloom-data", data |-> d, world |-> [a |-> e, b |-> e, stride |-> 1]] :
        d \in {NullBody} \cup
              {JsonBody(WithField(Coordinates(lat, lon), "date", date)) :
                  lat \in AppLat, lon \in AppLon,
                  date \in {Absent, Day("-", 2026, 10, 15)}},
        e \in AppEnvs}
    \cup
    {[route |-> "/api/bloom-prediction", data |-> d, world |-> w] :
        d \in {NullBody} \cup
              {JsonBody(Coordinates(lat, lon)) : lat \in AppLat, lon \in AppLon},
        w \in Worlds({7, 20})}
    \cup
    {[route |-> "/api/global-bloom-map", data |-> NullBody, world |-> w] :
        w \in [1..Len(regions) -> MapEnvs]}
    \cup
    {[route |-> "/api/time-series", data |-> d, world |-> w] :
        d \in {NullBody} \cup
              {JsonBody(WithField(WithField(Coordinates(lat, lon),
                            "start_date", r[1]), "end_date", r[2])) :
                  lat \in AppLat, lon \in AppLon, r \in AppRanges},
        w \in Worlds({1})}
    \cup
    {[route |-> "/api/multi-year-comparison", data |-> d, world |-> w] :
        d \in {NullBody} \cup
              {JsonBody(WithField(Coordinates(lat, lon), "years", years)) :
                  lat \in AppLat, lon \in AppLon, years \in AppYears},
        w \in Worlds({3})}
    \cup
    {[route |-> "/api/conservation-alerts", data |-> d, world |-> [a |-> e, b |-> e, stride |-> 1]] :
        d \in {NullBody} \cup
              {JsonBody(Coordinates(lat, lon)) : lat \in AppLat, lon \in AppLon},
        e \in AppEnvs}

\* the environment of each lookup of a request
EnvsOf(request) ==
    IF request.route = "/api/global-bloom-map" THEN request.world
    ELSE Alternating(request.world.a, request.world.b, request.world.stride)

InitApp ==
    /\ pc = "idle"
    /\ arg = Unset
    /\ ret = Unset
    /\ outbound = 0
    /\ nasa_fetcher = NASADataFetcherInit
    /\ bloom_detector = BloomDetectorInit

Receive ==
    /\ pc = "idle"
    /\ arg' \in Requests
    /\ ret' = Unset
    /\ outbound' = 0
    /\ pc' = "call"
    /\ UNCHANGED <<nasa_fetcher, bloom_detector>>

\* the handler has returned result: its response goes out
Respond(result) ==
    /\ ret' = JsonOrError500(result)
    /\ outbound' = outbound + result.requests
    /\ pc' = "done"
    /\ UNCHANGED <<arg, nasa_fetcher, bloom_detector>>

GetBloomData ==
    /\ pc = "call"
    /\ arg.route = "/api/bloom-data"
    /\ Respond(get_bloom_data(nasa_fetcher, bloom_detector, arg.data,
                              EnvsOf(arg)))

PredictBloom ==
    /\ pc = "call"
    /\ arg.route = "/api/bloom-prediction"
    /\ Respond(predict_bloom(nasa_fetcher, bloom_detector, arg.data,
                             EnvsOf(arg)))

GlobalBloomMap ==
    /\ pc = "call"
    /\ arg.route = "/api/global-bloom-map"
    /\ Respond(global_bloom_map(nasa_fetcher, bloom_detector, EnvsOf(arg)))

GetTimeSeries ==
    /\ pc = "call"
    /\ arg.route = "/api/time-series"
    /\ Respond(get_time_series_route(nasa_fetcher, bloom_detector, arg.data,
                                     EnvsOf(arg)))

MultiYearComparison ==
    /\ pc = "call"
    /\ arg.route = "/api/multi-year-comparison"
    /\ Respond(multi_year_comparison(nasa_fetcher, bloom_detector, arg.data,
                                     EnvsOf(arg)))

ConservationAlerts ==
    /\ pc = "call"
    /\ arg.route = "/api/conservation-alerts"
    /\ Respond(conservation_alerts(nasa_fetcher, bloom_detector, arg.data,
                                   EnvsOf(arg)))

\* the response has been sent; the process waits for the next request
Finish ==
    /\ pc = "done"
    /\ pc' = "idle"
    /\ arg' = Unset
    /\ ret' = Unset
    /\ UNCHANGED <<outbound, nasa_fetcher, bloom_detector>>

NextApp ==
    \/ Receive
    \/ GetBloomData
    \/ PredictBloom
    \/ GlobalBloomMap
    \/ GetTimeSeries
    \/ MultiYearComparison
    \/ ConservationAlerts
    \/ Finish

SpecApp == InitApp /\ [][NextApp]_vars

-----------------------------------------------------------------------------
(* Specification of the weekly series: one get_time_series call *)

SeriesLat == {Num(-34653), Num(300000), PyNone}

SeriesLon == {Num(100000)}

\* start_date / end_date: one day, six days, one week, a leap February,
\* across the new year, start after end, the first and the last days of
\* the calendar, and texts that name no day
SeriesRanges ==
    {<<Day("-", 2026, 1, 1), Day("-", 2026, 1, 1)>>,
     <<Day("-", 2026, 1, 1), Day("-", 2026, 1, 7)>>,
     <<Day("-", 2026, 1, 1), Day("-", 2026, 1, 8)>>,
     <<Day("-", 2024, 2, 20), Day("-", 2024, 3, 20)>>,
     <<Day("-", 2025, 12, 1), Day("-", 2026, 2, 15)>>,
     <<Day("-", 2026, 1, 15), Day("-", 2026, 1, 1)>>,
     <<Day("-", 1, 1, 1), Day("-", 1, 1, 10)>>,
     <<Day("-", 9999, 12, 1), Day("-", 9999, 12, 24)>>,
     <<Day("-", 9999, 12, 20), Day("-", 9999, 12, 31)>>,
     <<Day("-", 9999, 12, 31), Day("-", 9999, 12, 31)>>,
     <<Day("-", 2026, 2, 30), Day("-", 2026, 3, 15)>>,
     <<Day("-", 2026, 1, 1), Day("", 2026, 1, 15)>>}

SeriesInputs ==
    [op : {"get_time_series"}, lat : SeriesLat, lon : SeriesLon,
     range : SeriesRanges, world : Worlds({1, 2})]

InitSeries ==
    /\ pc = "call"
    /\ arg \in SeriesInputs
    /\ ret = Unset
    /\ outbound = 0
    /\ nasa_fetcher = NASADataFetcherInit
    /\ bloom_detector = BloomDetectorInit

TimeSeries ==
    /\ pc = "call"
    /\ LET r == get_time_series(arg.lat, arg.lon, arg.range[1], arg.range[2],
                    Alternating(arg.world.a, arg.world.b, arg.world.stride))
       IN  /\ ret' = r.out
           /\ outbound' = outbound + r.requests
    /\ pc' = "done"
    /\ UNCHANGED <<arg, nasa_fetcher, bloom_detector>>

NextSeries == TimeSeries

SpecSeries == InitSeries /\ [][NextSeries]_vars

-----------------------------------------------------------------------------
(* Properties of the scorer, under SpecScore *)

StatusColor ==
    [peak_bloom |-> "#00ff00", active_bloom |-> "#90ee90",
     early_bloom |-> "#ffff00", no_bloom |-> "#808080"]

\* C1: the status returned by analyze_bloom is a total, non-overlapping
\* function of the level with breakpoints 30/50/70 (no_bloom below 30,
\* early_bloom in [30,50), active_bloom in [50,70), peak_bloom from 70 on),
\* and the colour is the fixed hex of that status.
C1_StatusPartitionsLevel ==
    (pc = "done" /\ arg.op = "analyze_bloom") =>
        LET level == ret.val.level
            status == ret.val.status
        IN  /\ level \in 0..1000
            /\ status \in DOMAIN StatusColor
            /\ (status = "no_bloom") <=> (level < 300)
            /\ (status = "early_bloom") <=> (300 <= level /\ level < 500)
            /\ (status = "active_bloom") <=> (500 <= level /\ level < 700)
            /\ (status = "peak_bloom") <=> (level >= 700)
            /\ ret.val.color = StatusColor[status]

\* a level of exactly 70.0 has been scored as peak_bloom
C1_Witness ==
    /\ pc = "done"
    /\ arg.op = "analyze_bloom"
    /\ ret.val.level = 700
    /\ ret.val.status = "peak_bloom"

\* the other five quoted levels: 29.9, 30.0, 49.9, 50.0, 69.9
C1_QuotedLevels == {299, 300, 499, 500, 699}

\* C2: for every ClimateSample of the data model analyze_bloom returns a
\* level in [0,100] and a confidence in [0,0.95], in each of the four bands.
C2_LevelAndConfidenceInRange ==
    (pc = "done" /\ arg.op = "analyze_bloom") =>
        /\ ret.val.level \in 0..1000
        /\ ret.val.confidence \in 0..95

\* a peak-band sample whose raw confidence 0.85 + (level-70)/100 exceeds the cap
C2_Witness ==
    /\ pc = "done"
    /\ arg.op = "analyze_bloom"
    /\ ret.val.status = "peak_bloom"
    /\ ret.val.level > 800
    /\ ret.val.confidence = 95

-----------------------------------------------------------------------------
(* Properties of the climate source, under SpecFetch *)

SampleFields == {"ndvi", "evi", "temperature", "precipitation", "date"}

FetchDone == pc = "done" /\ arg.op = "get_vegetation_index"

RequestedDate == IF arg.date = PyNone THEN strftime(arg.now, "") ELSE arg.date

IsJsonObjectAnswer(provider) ==
    /\ provider.kind = "response"
    /\ provider.status_code = 200
    /\ provider.body.json = "object"

HasNumber(param) ==
    param.t = "object" /\ param.values # <<>> /\ IsNum(param.values[1])

NumberOrAbsent(param) ==
    param.t = "object" /\ (param.values = <<>> \/ IsNum(param.values[1]))

\* the reading of the payload that the derived sample reports
ReportedValue(param, default) ==
    IF param.values = <<>> THEN default ELSE param.values[1].v

\* the returned sample carries the provider's readings and the requested date
IsDerivedSample(sample, provider) ==
    /\ sample.temperature = ReportedValue(provider.body.T2M, 200)
    /\ sample.precipitation = ReportedValue(provider.body.PRECTOTCORR, 0)
    /\ sample.date = RequestedDate

\* the returned sample carries random readings and today's date
IsFallbackSample(sample) ==
    /\ sample.temperature \in {150 + d.temperature : d \in FallbackDraws}
    /\ sample.precipitation \in {d.precipitation : d \in FallbackDraws}
    /\ sample.date = strftime(arg.now, "")

C3_CommonPart ==
    /\ ~Raised(ret)
    /\ outbound = 1
    /\ DOMAIN ret.val = SampleFields

OnPrimaryPath ==
    /\ FetchDone
    /\ IsJsonObjectAnswer(arg.provider)
    /\ NumberOrAbsent(arg.provider.body.T2M)
    /\ NumberOrAbsent(arg.provider.body.PRECTOTCORR)

OnFallbackPath == FetchDone /\ ~OnPrimaryPath /\ ~Raised(ret)

\* section 4.1 of the specification, in ten-thousandths, temp and precip in
\* tenths: clamp(0, 0.95, (tempFactor*0.6 + precipFactor*0.4) * 0.9)
SpecNdvi(temp, precip) ==
    LET tempFactor300 ==
            IF 300 - Abs(temp - 200) < 0 THEN 0
            ELSE IF 300 - Abs(temp - 200) > 300 THEN 300
            ELSE 300 - Abs(temp - 200)
        precipFactor100 ==
            IF precip > 0 THEN (IF precip < 100 THEN precip ELSE 100) ELSE 30
        x == 18 * tempFactor300 + 36 * precipFactor100
    IN  IF x < 0 THEN 0 ELSE IF x > 9500 THEN 9500 ELSE x

C9_Ranges ==
    (OnPrimaryPath
        \/ (OnFallbackPath /\ IsNum(arg.lat) /\ Abs(arg.lat.v) <= 900000)) =>
        /\ 0 <= ret.val.ndvi
        /\ ret.val.ndvi <= 950
        /\ ret.val.evi >= ret.val.ndvi

\* C9 as stated: every returned sample has 0 <= ndvi <= 0.95 and evi >= ndvi,
\* and on the primary path the returned evi is 1.2 * ndvi when the returned
\* ndvi < 0.83 (allowing the 0.0011 that rounding both fields to three
\* decimals can add) and is ndvi otherwise.
C9_Original ==
    /\ C9_Ranges
    /\ OnPrimaryPath =>
          IF ret.val.ndvi < 830
          THEN Abs(10 * ret.val.evi - 12 * ret.val.ndvi) <= 11
          ELSE ret.val.evi = ret.val.ndvi

\* C9 (amended): every returned sample (primary path, or fallback path with
\* |lat| <= 90) has 0 <= ndvi <= 0.95 and evi >= ndvi; on the primary path,
\* with u the unrounded value of the fixed formula on (temperature,
\* precipitation), ndvi = round(u, 3) and evi = round(1.2*u, 3) when u < 0.83,
\* evi = round(u, 3) otherwise: the 0.83 test and the factor 1.2 apply to u,
\* not to the rounded ndvi of the sample.
C9_SampleInvariant ==
    /\ C9_Ranges
    /\ OnPrimaryPath =>
          LET u == SpecNdvi(ret.val.temperature, ret.val.precipitation)
          IN  /\ ret.val.ndvi = RoundDiv(u, 10, FALSE)
              /\ ret.val.evi = IF u < 8300 THEN RoundDiv(12 * u, 100, FALSE)
                               ELSE RoundDiv(u, 10, FALSE)

\* temperature 23.9 and precipitation >= 10 give u = 0.8298: the sample
\* carries ndvi 0.83 together with evi 0.996
C9_Witness ==
    /\ OnPrimaryPath
    /\ ret.val.temperature = 239
    /\ ret.val.ndvi = 830
    /\ ret.val.evi = 996

-----------------------------------------------------------------------------
(* Properties of the predictor, under SpecPredict *)

PredictDone == pc = "done" /\ arg.op = "predict_bloom_date"

Series == arg.historical_data

InsufficientData ==
    [date |-> Text("Datos insuficientes"), probability |-> 0,
     peak_period |-> Text("N/A")]

\* C5: predict_bloom_date returns the insufficient-data sentinel, without
\* raising, for every series of fewer than 14 entries (the empty series and
\* entries lacking ndvi or date included), and for no series of 14 or more.
C5_SentinelIffShort ==
    PredictDone => ((Len(Series) < 14) <=> (ret = Ok(InsufficientData)))

\* a 13-entry series whose second entry has no ndvi got the sentinel
C5_Witness ==
    /\ PredictDone
    /\ Len(Series) = 13
    /\ "ndvi" \notin DOMAIN Series[2]
    /\ ret = Ok(InsufficientData)

Complete(series) ==
    \A i \in 1..Len(series) : DOMAIN series[i] = {"ndvi", "date"}

\* the positions i whose pair (series[i], series[i+1]) is a bloom transition
TransitionPositions(series) ==
    {i \in 1..(Len(series) - 1) :
        /\ series[i + 1].ndvi > 600
        /\ series[i + 1].ndvi - series[i].ndvi > 50}

Last(S) == CHOOSE i \in S : \A j \in S : j <= i

First(S) == CHOOSE i \in S : \A j \in S : i <= j

\* the day of a %Y%m%d string of the series
DayOf(entry) == ymd2ord(entry.date.v.y, entry.date.v.m, entry.date.v.d)

\* the day of a returned %Y-%m-%d string
ReturnedDay(date) == ymd2ord(date.v.y, date.v.m, date.v.d)

NoPattern ==
    [date |-> Text("No hay patron historico"), probability |-> 30,
     peak_period |-> Text("Variable")]

SeveralTransitions ==
    /\ PredictDone
    /\ Len(Series) >= 14
    /\ Complete(Series)
    /\ Cardinality(TransitionPositions(Series)) >= 2

\* the sum of the day gaps between consecutive transition dates
GapSum == LET T == TransitionPositions(Series)
          IN  DayOf(Series[Last(T)]) - DayOf(Series[First(T)])

GapCount == Cardinality(TransitionPositions(Series)) - 1

\* C10 as stated: with two or more transitions avgInterval is the mean of the
\* day gaps between consecutive transition dates, also when that mean is not a
\* whole number; the predicted date is the last transition date plus
\* avgInterval days and peak_period embeds avgInterval.
C10_Original ==
    SeveralTransitions =>
        /\ ~Raised(ret)
        /\ ret.val.peak_period.v.days * GapCount = GapSum
        /\ ReturnedDay(ret.val.date)
              = DayOf(Series[Last(TransitionPositions(Series))])
                    + ret.val.peak_period.v.days

\* C10 (amended): with two or more transitions avgInterval is the mean of
\* the day gaps between consecutive transition dates truncated toward zero to
\* a whole number of days (int(sum/len)); the predicted date is the last
\* transition date plus avgInterval days and peak_period embeds that same
\* avgInterval.
C10_TruncatedMeanInterval ==
    SeveralTransitions =>
        LET mean == IF GapSum >= 0 THEN GapSum \div GapCount
                    ELSE -((-GapSum) \div GapCount)
        IN  /\ ~Raised(ret)
            /\ ret.val.peak_period.v.days = mean
            /\ ReturnedDay(ret.val.date)
                  = DayOf(Series[Last(TransitionPositions(Series))]) + mean

\* three transitions in a series descending by 3 days: gaps -3 and -6, mean
\* -4.5, avgInterval -4
C10_Witness ==
    /\ SeveralTransitions
    /\ GapCount = 2
    /\ GapSum = -9
    /\ ret.val.peak_period.v.days = -4

-----------------------------------------------------------------------------
(* Properties of the classifier, under SpecClassify *)

ClassifyDone == pc = "done" /\ arg.op = "identify_species_type"

TropicalHints ==
    {"Selva tropical densa", "Flores tropicales: Orquideas, Heliconias, Jengibre"}

TemperateHints ==
    {"Arboles frutales en floracion",
     "Posibles especies: Cerezos, Manzanos, Duraznos",
     "Flores silvestres de primavera"}

BorealHints == {"Tundra floreciente o bosque boreal"}

Elements(seq) == {seq[i] : i \in DOMAIN seq}

\* position of an element of a sequence without repetitions
IndexOf(seq, elem) == CHOOSE i \in DOMAIN seq : seq[i] = elem

\* C8: ecosystem_type is chosen by the latitude alone, exhaustively and
\* exclusively (Tropical iff |lat| <= 23.5, Templado iff 23.5 < |lat| <= 66.5,
\* Boreal/Polar otherwise); only the chosen band's rules add band hints, in
\* rule order, and at lat=0, ndvi=0.8, temp=26, precip=12 the hints are the
\* dense-rainforest hint followed by the tropical-flower hint.
C8_BandByLatitude ==
    ClassifyDone =>
        LET lat == arg.location.lat.v
            sat == arg.satellite_data
            type == ret.val.ecosystem_type
            hints == ret.val.species_hints
        IN  /\ ~Raised(ret)
            /\ type \in {"Tropical", "Templado", "Boreal/Polar"}
            /\ (type = "Tropical") <=> (Abs(lat) <= 235000)
            /\ (type = "Templado") <=> (235000 < Abs(lat) /\ Abs(lat) <= 665000)
            /\ (type = "Boreal/Polar") <=> (Abs(lat) > 665000)
            /\ (Elements(hints) \cap TropicalHints # {}) => type = "Tropical"
            /\ (Elements(hints) \cap TemperateHints # {}) => type = "Templado"
            /\ (Elements(hints) \cap BorealHints # {}) => type = "Boreal/Polar"
            /\ (type = "Tropical" /\ sat.ndvi > 700
                    /\ sat.temperature > 250 /\ sat.precipitation > 100) =>
                  /\ TropicalHints \subseteq Elements(hints)
                  /\ IndexOf(hints, "Selva tropical densa") = 1
                  /\ IndexOf(hints, "Flores tropicales: Orquideas, Heliconias, Jengibre") = 2
            /\ (lat = 0 /\ sat.ndvi = 800 /\ sat.temperature = 260
                    /\ sat.precipitation = 120) =>
                  hints = <<"Selva tropical densa",
                            "Flores tropicales: Orquideas, Heliconias, Jengibre">>

\* the quoted case was classified
C8_Witness ==
    /\ ClassifyDone
    /\ arg.location.lat.v = 0
    /\ arg.satellite_data.ndvi = 800
    /\ arg.satellite_data.temperature = 260
    /\ arg.satellite_data.precipitation = 120
    /\ ret.val.ecosystem_type = "Tropical"
    /\ Len(ret.val.species_hints) = 2

\* the hints the rules of lines 139-188 add for the classified input
HintsAdded ==
    LET lat == arg.location.lat.v
        ndvi == arg.satellite_data.ndvi
        evi == arg.satellite_data.evi
        temp == arg.satellite_data.temperature
        precip == arg.satellite_data.precipitation
        tropical == Abs(lat) <= 235000
        temperate == 235000 < Abs(lat) /\ Abs(lat) <= 665000
        boreal == Abs(lat) > 665000
    IN    (IF tropical /\ ndvi > 700 THEN 1 ELSE 0)
        + (IF tropical /\ temp > 250 /\ precip > 100 THEN 1 ELSE 0)
        + (IF temperate /\ 150 < temp /\ temp < 250 /\ ndvi > 500 THEN 2 ELSE 0)
        + (IF temperate /\ ndvi > 600 /\ 100 < temp /\ temp < 200 THEN 1 ELSE 0)
        + (IF boreal /\ ndvi > 300 THEN 1 ELSE 0)
        + (IF 400 < ndvi /\ ndvi < 700 /\ 500 < evi /\ evi < 800 THEN 2 ELSE 0)
        + (IF ndvi > 750 /\ temp < 100 THEN 1 ELSE 0)
        + (IF ndvi < 250 THEN 1 ELSE 0)

\* the notes the same rules add
NotesAdded ==
    LET lat == arg.location.lat.v
        ndvi == arg.satellite_data.ndvi
        evi == arg.satellite_data.evi
        temp == arg.satellite_data.temperature
        precip == arg.satellite_data.precipitation
        tropical == Abs(lat) <= 235000
        temperate == 235000 < Abs(lat) /\ Abs(lat) <= 665000
        boreal == Abs(lat) > 665000
    IN    (IF tropical /\ ndvi > 700 THEN 1 ELSE 0)
        + (IF tropical /\ temp > 250 /\ precip > 100 THEN 1 ELSE 0)
        + (IF temperate /\ 150 < temp /\ temp < 250 /\ ndvi > 500 THEN 1 ELSE 0)
        + (IF temperate /\ ndvi > 600 /\ 100 < temp /\ temp < 200 THEN 1 ELSE 0)
        + (IF boreal /\ ndvi > 300 THEN 1 ELSE 0)
        + (IF 400 < ndvi /\ ndvi < 700 /\ 500 < evi /\ evi < 800 /\ temp > 200
           THEN 1 ELSE 0)
        + (IF ndvi > 750 /\ temp < 100 THEN 2 ELSE 0)
        + (IF ndvi < 250 THEN 2 ELSE 0)

\* C12 as stated: species_hints and ecological_notes are never empty, each is
\* its single default exactly when no rule added to it, and confidence
\* follows the hint count of the result (Alta if more than 2 hints, Media if
\* more than 0, else Baja), so that the result with the one default hint has
\* the confidence of one hint.
C12_Original ==
    ClassifyDone =>
        LET hints == ret.val.species_hints
            notes == ret.val.ecological_notes
        IN  /\ ~Raised(ret)
            /\ hints # <<>>
            /\ notes # <<>>
            /\ (hints = <<"Vegetacion general">>) <=> (HintsAdded = 0)
            /\ (notes = <<"Condiciones normales">>) <=> (NotesAdded = 0)
            /\ ret.val.confidence =
                  IF Len(hints) > 2 THEN "Alta"
                  ELSE IF Len(hints) > 0 THEN "Media"
                  ELSE "Baja"

\* C12 as amended: identify_species_type never returns an empty species_hints or
\* ecological_notes: species_hints is the single general-vegetation hint
\* exactly when no rule added a hint (else it is the hints the rules added),
\* ecological_notes is the single normal-conditions note exactly when no rule
\* added a note, and confidence follows the count of hints the rules added:
\* Alta if more than 2, Media if more than 0, else Baja, so the result with
\* the one default hint has the confidence of no added hint, Baja.
C12_DefaultsAndConfidence ==
    ClassifyDone =>
        LET hints == ret.val.species_hints
            notes == ret.val.ecological_notes
        IN  /\ ~Raised(ret)
            /\ hints # <<>>
            /\ notes # <<>>
            /\ (hints = <<"Vegetacion general">>) <=> (HintsAdded = 0)
            /\ HintsAdded > 0 => Len(hints) = HintsAdded
            /\ (notes = <<"Condiciones normales">>) <=> (NotesAdded = 0)
            /\ NotesAdded > 0 => Len(notes) = NotesAdded
            /\ ret.val.confidence =
                  IF HintsAdded > 2 THEN "Alta"
                  ELSE IF HintsAdded > 0 THEN "Media"
                  ELSE "Baja"

\* no rule added a hint or a note: both defaults are returned, with Baja
C12_Witness ==
    /\ ClassifyDone
    /\ HintsAdded = 0
    /\ NotesAdded = 0
    /\ ret.val.species_hints = <<"Vegetacion general">>
    /\ ret.val.ecological_notes = <<"Condiciones normales">>
    /\ ret.val.confidence = "Baja"

-----------------------------------------------------------------------------
(* Properties of the service, under SpecApp *)

AppDone == pc = "done" /\ "route" \in DOMAIN arg

PostRoutes ==
    {"/api/bloom-data", "/api/bloom-prediction", "/api/time-series",
     "/api/multi-year-comparison", "/api/conservation-alerts"}

HasField(request, key) ==
    request.data.t = "object" /\ key \in DOMAIN request.data.fields

HasNumberField(request, key) ==
    HasField(request, key) /\ IsNum(request.data.fields[key])

\* the provider's answer to the lookup is read as a derived sample
Derivable(env) ==
    /\ IsJsonObjectAnswer(env.provider)
    /\ NumberOrAbsent(env.provider.body.T2M)
    /\ NumberOrAbsent(env.provider.body.PRECTOTCORR)

\* one of the first n lookups of the request takes the fallback
FallsBackWithin(request, n) ==
    \E i \in 1..n : ~Derivable(EnvsOf(request)[i])

IsDayText(request, key) ==
    /\ HasField(request, key)
    /\ request.data.fields[key].t = "str"
    /\ "sep" \in DOMAIN request.data.fields[key].v
    /\ request.data.fields[key].v.sep = "-"
    /\ request.data.fields[key].v.m \in 1..12
    /\ request.data.fields[key].v.d \in
          1..DaysInMonth(request.data.fields[key].v.y,
                         request.data.fields[key].v.m)

OrdinalOf(request, key) ==
    ymd2ord(request.data.fields[key].v.y, request.data.fields[key].v.m,
            request.data.fields[key].v.d)

\* the weekly steps of a time-series request from start to end
Weeks(request) ==
    LET start == OrdinalOf(request, "start_date")
        end == OrdinalOf(request, "end_date")
    IN  IF start > end THEN 0 ELSE (end - start) \div 7 + 1

\* the requests the handlers cannot answer, told from the request and from
\* what the provider does with its lookups
FailingRequest(request) ==
    IF request.route = "/api/global-bloom-map" THEN FALSE
    ELSE IF request.data.t # "object" THEN TRUE
    ELSE IF request.route = "/api/bloom-data"
    THEN ~HasNumberField(request, "latitude")
    ELSE IF request.route = "/api/bloom-prediction"
    THEN ~HasNumberField(request, "latitude")
            /\ FallsBackWithin(request, HistoryDays)
    ELSE IF request.route = "/api/conservation-alerts"
    THEN ~HasNumberField(request, "latitude") /\ FallsBackWithin(request, 1)
    ELSE IF request.route = "/api/multi-year-comparison"
    THEN \/ ~HasNumberField(request, "latitude")
         \/ /\ HasField(request, "years")
            /\ \/ request.data.fields["years"].t # "list"
               \/ request.data.fields["years"].v = <<>>
    ELSE \/ ~IsDayText(request, "start_date")
         \/ ~IsDayText(request, "end_date")
         \/ /\ Weeks(request) > 0
            /\ \/ ~HasNumberField(request, "latitude")
                     /\ FallsBackWithin(request, Weeks(request))
               \/ OrdinalOf(request, "start_date") + 7 * Weeks(request)
                     > ymd2ord(9999, 12, 31)

\* the failures the claim lists, told from the request alone
ListedFailure(request) ==
    /\ request.route \in PostRoutes
    /\ \/ request.data.t # "object"
       \/ ~HasNumberField(request, "latitude")
       \/ ~HasNumberField(request, "longitude")
       \/ request.route = "/api/time-series"
             /\ (~IsDayText(request, "start_date")
                    \/ ~IsDayText(request, "end_date"))
       \/ /\ request.route = "/api/multi-year-comparison"
          /\ HasField(request, "years")
          /\ request.data.fields["years"] = [t |-> "list", v |-> <<>>]

\* every answer is a response, 200 with the result or 500 with
\* {success: false, error}; the singletons are as constructed, and between
\* two requests nothing of the last one is left
ErrorContract ==
    /\ nasa_fetcher = NASADataFetcherInit
    /\ bloom_detector = BloomDetectorInit
    /\ pc = "idle" => (arg = Unset /\ ret = Unset)
    /\ AppDone =>
          /\ "status" \in DOMAIN ret
          /\ ret.status \in {200, 500}
          /\ ret.status = 500 =>
                /\ DOMAIN ret.body = {"success", "error"}
                /\ ret.body.success = FALSE
          /\ ret.status = 200 => ret.body.success = TRUE

RegionNames ==
    <<"Amazon", "Sahel", "Mediterranean", "North America", "Southeast Asia",
      "Australia">>

RegionLat == <<-34653, 150000, 400000, 400000, 100000, -250000>>

RegionLon == <<-622159, 0, 100000, -1000000, 1050000, 1350000>>

MapDone == AppDone /\ arg.route = "/api/global-bloom-map"

\* C7: the global map answers 200 with success and exactly six entries,
\* Amazon, Sahel, Mediterranean, North America, Southeast Asia, Australia in
\* that order, each with the region's fixed lat/lon, a bloom_level and a
\* status, whatever the provider does with each of the six lookups.
C7_SixRegionsAlways ==
    MapDone =>
        /\ ret.status = 200
        /\ ret.body.success = TRUE
        /\ outbound = 6
        /\ Len(ret.body.data) = 6
        /\ \A k \in 1..6 :
              LET entry == ret.body.data[k]
              IN  /\ DOMAIN entry = {"name", "lat", "lon", "bloom_level", "status"}
                  /\ entry.name = RegionNames[k]
                  /\ entry.lat = RegionLat[k]
                  /\ entry.lon = RegionLon[k]
                  /\ entry.bloom_level \in 0..1000
                  /\ entry.status \in DOMAIN StatusColor

\* a map has been answered whose six lookups all failed, each kind of failure
\* among them
C7_Witness ==
    /\ MapDone
    /\ \A k \in 1..6 : ~Derivable(arg.world[k])
    /\ \E k \in 1..6 : arg.world[k].provider.kind = "Timeout"
    /\ \E k \in 1..6 : /\ arg.world[k].provider.kind = "response"
                       /\ arg.world[k].provider.status_code = 500
    /\ \E k \in 1..6 : /\ arg.world[k].provider.kind = "response"
                       /\ arg.world[k].provider.status_code = 200
    /\ Len(ret.body.data) = 6

-----------------------------------------------------------------------------
(* Properties of the weekly series, under SpecSeries *)

SeriesDone == pc = "done" /\ "range" \in DOMAIN arg

\* the text names a calendar day in the layout YYYY-MM-DD
NamesDay(s) ==
    /\ s.t = "str"
    /\ "sep" \in DOMAIN s.v
    /\ s.v.sep = "-"
    /\ s.v.y \in 1..9999
    /\ s.v.m \in 1..12
    /\ s.v.d \in 1..DaysInMonth(s.v.y, s.v.m)

ValidRange == NamesDay(arg.range[1]) /\ NamesDay(arg.range[2])

SeriesStart == ymd2ord(arg.range[1].v.y, arg.range[1].v.m, arg.range[1].v.d)

SeriesEnd == ymd2ord(arg.range[2].v.y, arg.range[2].v.m, arg.range[2].v.d)

\* floor((end - start) / 7) + 1 when start <= end, else none
SeriesCount ==
    IF SeriesStart <= SeriesEnd THEN (SeriesEnd - SeriesStart) \div 7 + 1
    ELSE 0

\* the k-th date start + 7k of the claim, k counted from 1
SampledDay(k) == SeriesStart + 7 * (k - 1)

\* what the sample of the k-th date is
SampleAt(k) ==
    get_vegetation_index(arg.lat, arg.lon, strftime(SampledDay(k), ""),
        Alternating(arg.world.a, arg.world.b, arg.world.stride)[k]).out.val

Blooming ==
    SelectSeq([k \in 1..SeriesCount |-> k], LAMBDA k : SampleAt(k).ndvi > 600)

\* the result the claim describes
SeriesAsClaimed ==
    /\ ~Raised(ret)
    /\ outbound = SeriesCount
    /\ ret.val.dates =
          [k \in 1..SeriesCount |-> strftime(SampledDay(k), "-")]
    /\ ret.val.ndvi = [k \in 1..SeriesCount |-> SampleAt(k).ndvi]
    /\ ret.val.evi = [k \in 1..SeriesCount |-> SampleAt(k).evi]
    /\ ret.val.bloom_events =
          [j \in 1..Len(Blooming) |->
              [date |-> strftime(SampledDay(Blooming[j]), "-"),
               intensity |-> SampleAt(Blooming[j]).ndvi]]

\* the date after the last sampled one lies beyond 9999-12-31
StepsPastCalendar ==
    SeriesCount > 0 /\ SampledDay(SeriesCount) + 7 > ymd2ord(9999, 12, 31)

\* C11: for every pair of valid dates (and a numeric latitude)
\* get_time_series returns; it samples exactly the dates start + 7k <= end,
\* once each and ascending: dates, ndvi and evi have length
\* floor((end-start)/7)+1 when start <= end and are empty when start > end, and
\* bloom_events holds, in order, exactly the sampled dates with ndvi > 0.6,
\* each with intensity equal to that ndvi.
C11_WeeklySamples ==
    (SeriesDone /\ ValidRange /\ IsNum(arg.lat)) => SeriesAsClaimed

\* where the code departs from C11: the call raises OverflowError exactly
\* when the step after the last sample leaves the calendar, and returns the
\* claimed result for every other pair of valid dates
C11_DepartsAtCalendarEnd ==
    (SeriesDone /\ ValidRange /\ IsNum(arg.lat)) =>
        IF StepsPastCalendar THEN ret = Raise("OverflowError")
        ELSE SeriesAsClaimed

\* a series of several samples, some of them bloom events and some not
C11_Reached ==
    /\ SeriesDone /\ ValidRange /\ IsNum(arg.lat)
    /\ SeriesAsClaimed
    /\ SeriesCount > 2
    /\ Len(Blooming) \in 1..(SeriesCount - 1)
    /\ \E k \in 1..SeriesCount : SampleAt(k).ndvi = 600

-----------------------------------------------------------------------------
(* Properties of the conservation alerts, under SpecApp *)

AlertsDone ==
    AppDone /\ arg.route = "/api/conservation-alerts" /\ ret.status = 200

AlertTypes(alerts) == [i \in DOMAIN alerts |-> alerts[i].type]

\* the two recommendations that come with an alert of the type
RecommendationsOf(type) ==
    IF type = "Degradacion"
    THEN <<"Investigar causas de perdida de vegetacion",
           "Implementar medidas de restauracion urgentes">>
    ELSE IF type = "Especie Invasora"
    THEN <<"Realizar inspeccion de campo", "Verificar especies no nativas">>
    ELSE <<"Ubicar colmenas en la zona",
           "Planificar actividades de turismo ecologico">>

\* C13: in POST /api/conservation-alerts, whenever the critical Degradacion
\* alert is issued the returned priority_level is Baja (priority_score below
\* 30), never Alta or Media, and the Especie Invasora warning is not in the
\* same response; recommendations holds exactly two entries per issued
\* alert, in alert order.
C13_DegradationIsLowPriority ==
    AlertsDone =>
        LET alerts == ret.body.alerts
            types == Elements(AlertTypes(alerts))
            recommendations == ret.body.recommendations
        IN  /\ types \subseteq {"Degradacion", "Especie Invasora", "Oportunidad"}
            /\ "Degradacion" \in types =>
                  /\ ret.body.priority_level = "Baja"
                  /\ ret.body.priority_score < 300
                  /\ "Especie Invasora" \notin types
            /\ Len(recommendations) = 2 * Len(alerts)
            /\ \A i \in DOMAIN alerts :
                  /\ recommendations[2 * i - 1] = RecommendationsOf(alerts[i].type)[1]
                  /\ recommendations[2 * i] = RecommendationsOf(alerts[i].type)[2]

\* a response with the Degradacion alert alone, its two recommendations and
\* the priority Baja at a score of 29.9
C13_Witness ==
    /\ AlertsDone
    /\ AlertTypes(ret.body.alerts) = <<"Degradacion">>
    /\ ret.body.recommendations = RecommendationsOf("Degradacion")
    /\ ret.body.priority_score = 299
    /\ ret.body.priority_level = "Baja"

====
